---- MODULE Spec2Model ----
(***************************************************************************)
(* RL2Sampler (src/src/garage/sampler/rl2_sampler.py): a batch sampler     *)
(* that drives a group of environment slots, accumulates each slot's       *)
(* running trajectory, turns it into a path when the slot reports done,    *)
(* and stops once the number of collected samples reaches the batch size.  *)
(*                                                                         *)
(* The sampler never inspects observations, actions, rewards or infos: it  *)
(* only routes them.  Each such value is therefore a tag <<kind, slot, t>> *)
(* naming the slot and the loop iteration that produced it; the done flag, *)
(* the only value the sampler branches on, is chosen by the environment.   *)
(***************************************************************************)
EXTENDS Integers, Sequences, FiniteSets, TLC

\* Bounds of the model.
MaxEnvs == 3
MaxMetaBatch == 2
MaxEpisodePerTask == 2
MaxPathLength == 2
MaxBatchSize == 3
MaxStarts == 1

\* The global seeds tried.
Seeds == {7}

\* Python's None, and a present optional value.
None == <<>>
Some(x) == <<x>>
Get(o) == o[1]

Slots(n) == 0 .. (n - 1)

VARIABLES
    n_envs,           \* self._n_envs
    meta_batch_size,  \* self._meta_batch_size
    episode_per_task, \* self._episode_per_task
    max_path_length,  \* self.algo.max_path_length
    seed0,            \* deterministic.get_seed(): None or Some(seed)
    env_dones,        \* the done values an environment may report before
                      \* an episode reaches max_path_length
    batch_sizes,      \* the batch_size arguments callers pass
    info_change,      \* None, or Some(<<slot, step>>): the step of its episodes
                      \* at which that slot's environment reports an
                      \* env-info dict with one more key
    max_starts,       \* the number of start_worker calls callers make
    keeps,            \* whether the caller keeps hold of the batch a call
                      \* returned while it makes the next call
    vec_env,          \* self._vec_env: None or Some(index into groups)
    groups,           \* every VecEnvExecutor built so far
    envs,             \* every environment instance pickled so far
    sampled,          \* number of tasks handed out by env.sample_tasks
    pc,               \* "idle", "loop", "done" or "error"
    err,              \* the exception that ended the last call, or None
    args,             \* the batch_size argument of the call: None when
                      \* left out, else Some(batch_size)
    whole_paths_arg,  \* the whole_paths argument of the call, likewise
    batch_size,       \* local batch_size of obtain_samples
    paths,            \* local paths: slot -> sequence of paths
    n_samples,        \* local n_samples
    obses,            \* local obses
    dones,            \* local dones
    running_paths,    \* local running_paths: slot -> None or Some(record)
    ts,               \* the environment group's per-slot step counter
    t,                \* loop iterations completed in this call
    calls,            \* collaborator calls made by this call, in order
    result,           \* what obtain_samples returned: None or Some(batch)
    held              \* the batch the call before this one returned, as the
                      \* caller that kept hold of it sees it now, or None

config == <<n_envs, meta_batch_size, episode_per_task, max_path_length,
            seed0, env_dones, batch_sizes, info_change, max_starts, keeps>>
worker == <<vec_env, groups, envs, sampled>>
locals == <<args, whole_paths_arg, batch_size, paths, n_samples, obses, dones,
            running_paths, ts, t, calls, result, held>>
vars == <<config, worker, pc, err, locals>>

\* The arguments a caller may pass; None is an argument left out.
BatchSizeArgs == {None} \cup {Some(b) : b \in 0 .. MaxBatchSize}
WholePathsArgs == {None, Some(TRUE), Some(FALSE)}

\* Faulty variant: the default the docstring of obtain_samples gives,
\* algo.max_path_length * n_envs.
DefaultBatchSizeOfDocstring == max_path_length * n_envs

\* if batch_size is None: batch_size = ...
DefaultBatchSize == episode_per_task * max_path_length * n_envs
BatchSize(b) == IF b = None THEN DefaultBatchSize ELSE Get(b)

(***************************************************************************)
(* __init__ : the sampler after construction.                              *)
(***************************************************************************)
InitSampler ==
    /\ vec_env = None
    /\ groups = <<>>
    /\ envs = <<>>
    /\ sampled = 0
    /\ pc = "idle"
    /\ err = None
    /\ args = None
    /\ whole_paths_arg = None
    /\ batch_size = 0
    /\ paths = <<>>
    /\ n_samples = 0
    /\ obses = <<>>
    /\ dones = <<>>
    /\ running_paths = <<>>
    /\ ts = <<>>
    /\ t = 0
    /\ calls = <<>>
    /\ result = None
    /\ held = None

\* A call of another method follows a returned obtain_samples: its frame
\* and the batch it returned are out of the sampler's reach.
FrameGone ==
    /\ args' = None
    /\ whole_paths_arg' = None
    /\ batch_size' = 0
    /\ paths' = <<>>
    /\ n_samples' = 0
    /\ obses' = <<>>
    /\ dones' = <<>>
    /\ running_paths' = <<>>
    /\ ts' = <<>>
    /\ t' = 0
    /\ calls' = <<>>
    /\ result' = None
    /\ held' = None

\* The constructor's arguments.  episode_per_task is read only to
\* compute the default batch size, so values other than 1 are tried where
\* that default is within MaxBatchSize.
InitConfig ==
    /\ n_envs \in 1 .. MaxEnvs
    /\ meta_batch_size \in 1 .. MaxMetaBatch
    /\ max_path_length \in 1 .. MaxPathLength
    /\ episode_per_task \in
          {e \in 1 .. MaxEpisodePerTask :
              e = 1 \/ e * max_path_length * n_envs <= MaxBatchSize}
    /\ seed0 \in {None} \cup {Some(s) : s \in Seeds}
    /\ env_dones = {FALSE, TRUE}
    /\ batch_sizes = {b \in BatchSizeArgs : BatchSize(b) <= MaxBatchSize}

\* The environments whose env-info key set changes within an episode.
InfoChanges ==
    {Some(<<j, k>>) : j \in Slots(n_envs), k \in 1 .. max_path_length}

\* The key sets of the info dicts are read by obtain_samples only: the
\* environments that change them are tried in samplers that are started
\* once, without a seed, with one task.
Init ==
    /\ InitConfig
    /\ \/ info_change = None /\ max_starts = MaxStarts
       \/ /\ info_change \in InfoChanges
          /\ max_starts = 1
          /\ seed0 = None
          /\ meta_batch_size = 1
    /\ keeps = FALSE
    /\ InitSampler

\* A sampler that is started once.
LiveInit ==
    /\ InitConfig
    /\ info_change = None
    /\ max_starts = 1
    /\ keeps = FALSE
    /\ InitSampler

\* The scenario of four slots whose episodes all end at step 10, for the
\* batch sizes 15 and 20.
ScenarioInit ==
    /\ n_envs = 4
    /\ meta_batch_size \in 1 .. 4
    /\ episode_per_task = 1
    /\ max_path_length = 10
    /\ seed0 \in {None} \cup {Some(s) : s \in Seeds}
    /\ env_dones = {FALSE}
    /\ batch_sizes = {Some(15), Some(20)}
    /\ info_change = None
    /\ max_starts = MaxStarts
    /\ keeps = FALSE
    /\ InitSampler

\* A caller that calls start_worker up to twice, on one or two slots.
LifecycleInit ==
    /\ n_envs \in 1 .. 2
    /\ meta_batch_size \in 1 .. 2
    /\ episode_per_task = 1
    /\ max_path_length \in 1 .. 2
    /\ seed0 = None
    /\ env_dones = {FALSE, TRUE}
    /\ batch_sizes = {Some(1)}
    /\ info_change = None
    /\ max_starts = 2
    /\ keeps = FALSE
    /\ InitSampler

\* A caller that makes call after call on one or two slots and keeps hold
\* of the batch of the call before.
TwoCallsInit ==
    /\ n_envs \in 1 .. 2
    /\ meta_batch_size \in 1 .. 2
    /\ episode_per_task = 1
    /\ max_path_length \in 1 .. 2
    /\ seed0 = None
    /\ env_dones = {FALSE, TRUE}
    /\ batch_sizes = {Some(1), Some(2)}
    /\ info_change = None
    /\ max_starts = 1
    /\ keeps = TRUE
    /\ InitSampler

(***************************************************************************)
(* start_worker                                                            *)
(***************************************************************************)
\* Faulty variant: the second assertion is missing.
StartAssertsNoMultiple == n_envs >= meta_batch_size

\* The two assertions of start_worker.
StartAsserts ==
    /\ n_envs >= meta_batch_size
    /\ n_envs % meta_batch_size = 0

EnvsPerWorker == n_envs \div meta_batch_size

\* Faulty variant: the copies are dealt to the slots in turn.
VecEnvsInTurn(first) ==
    [i \in Slots(meta_batch_size * EnvsPerWorker) |->
        first + (i % meta_batch_size)]

\* vec_envs after the loop over the tasks: one pickled copy of the base
\* environment per task, and the same copy listed envs_per_worker times.
\* first is the index in envs of the copy made for the first task.
VecEnvs(first) ==
    [i \in Slots(meta_batch_size * EnvsPerWorker) |->
        first + (i \div EnvsPerWorker)]

\* The copies themselves: task k of this call is bound to copy k.
NewEnvs ==
    [k \in 1 .. meta_batch_size |->
        [task |-> sampled + k, seed |-> None, seeded |-> 0]]

\* for (i, e) in enumerate(vec_envs): e.seed(seed0 + i), from slot i on.
RECURSIVE SeedEnvs(_, _, _)
SeedEnvs(es, vec_envs, i) ==
    IF i \notin DOMAIN vec_envs
    THEN es
    ELSE SeedEnvs(
            [es EXCEPT ![vec_envs[i]].seed = Some(Get(seed0) + i),
                       ![vec_envs[i]].seeded = @ + 1],
            vec_envs, i + 1)

StartWorkerFail ==
    /\ pc \in {"idle", "done"}
    /\ Len(groups) < max_starts
    /\ ~StartAsserts
    /\ pc' = "error"
    /\ err' = Some("AssertionError")
    /\ UNCHANGED <<config, worker, locals>>

StartWorker ==
    /\ pc \in {"idle", "done"}
    /\ Len(groups) < max_starts
    /\ StartAsserts
    /\ LET vec_envs == VecEnvs(Len(envs) + 1)
           made == envs \o NewEnvs
       IN /\ sampled' = sampled + meta_batch_size
          /\ envs' = IF seed0 # None THEN SeedEnvs(made, vec_envs, 0)
                     ELSE made
          /\ groups' = Append(groups,
                          [envs |-> vec_envs,
                           max_path_length |-> max_path_length,
                           closes |-> 0])
          /\ vec_env' = Some(Len(groups) + 1)
    /\ pc' = "idle"
    /\ FrameGone
    /\ UNCHANGED <<config, err>>

(***************************************************************************)
(* shutdown_worker                                                         *)
(***************************************************************************)
ShutdownWorkerFail ==
    /\ pc \in {"idle", "done"}
    /\ vec_env = None
    /\ pc' = "error"
    /\ err' = Some("AttributeError")
    /\ UNCHANGED <<config, worker, locals>>

\* The close calls made so far, over the groups from index g on.
RECURSIVE ClosesFrom(_)
ClosesFrom(g) ==
    IF g \notin DOMAIN groups THEN 0
    ELSE groups[g].closes + ClosesFrom(g + 1)

\* The callers modelled call shutdown_worker only after a start_worker
\* that no shutdown_worker has been called for yet.
UnmatchedStart == ClosesFrom(1) < Len(groups)

\* self._vec_env.close(): the group that is closed.
ClosedGroup == Get(vec_env)

ShutdownWorker ==
    /\ pc \in {"idle", "done"}
    /\ vec_env # None
    /\ UnmatchedStart
    /\ groups' = [groups EXCEPT ![ClosedGroup].closes = @ + 1]
    /\ pc' = "idle"
    /\ FrameGone
    /\ UNCHANGED <<config, vec_env, envs, sampled, err>>

(***************************************************************************)
(* The environment group (VecEnvExecutor) and the policy, as the sampler   *)
(* sees them.                                                              *)
(***************************************************************************)
\* self._vec_env.num_envs
NumEnvs == Cardinality(DOMAIN groups[Get(vec_env)].envs)

Obs(j, k) == <<"o", j, k>>
Action(j, k) == <<"a", j, k>>
Reward(j, k) == <<"r", j, k>>
\* The keys of the env-info dict slot j's environment reports at its next
\* step, and that dict at loop iteration k.
EnvInfoKeys(j) ==
    IF info_change = Some(<<j, ts[j] + 1>>) THEN {"info", "success"}
    ELSE {"info"}
EnvInfo(j, k) == [key \in EnvInfoKeys(j) |-> <<"e", j, k>>]
AgentInfo(j, k) == [info |-> <<"g", j, k>>]

\* self._vec_env.reset(): one observation per slot.
VecEnvReset == [j \in Slots(NumEnvs) |-> Obs(j, 0)]

\* The done vectors self._vec_env.step may return: a slot whose episode
\* reaches the group's max_path_length is done, any other slot reports
\* one of the values its environment can produce.
StepDones ==
    {d \in [Slots(NumEnvs) -> BOOLEAN] :
        \A j \in Slots(NumEnvs) :
            IF ts[j] + 1 >= groups[Get(vec_env)].max_path_length
            THEN d[j]
            ELSE d[j] \in env_dones}

\* policy.get_actions(obses): the action batch for the observations.
GetActions(obs) == [j \in DOMAIN obs |-> Action(obs[j][2], obs[j][3])]

(***************************************************************************)
(* Paths                                                                   *)
(***************************************************************************)
\* An exception raised where a value was to be returned.
Raise(e) == [raised |-> e]
IsRaise(v) == DOMAIN v = {"raised"}

\* tensor_utils.stack_tensor_dict_list: a list of dicts to a dict of lists,
\* key by key.  Every dict of the list has to carry the same keys: the
\* call raises SchemaMismatchError otherwise.
StackRaises(l) == \E i \in DOMAIN l : DOMAIN l[i] # DOMAIN l[1]

StackTensorDictList(l) ==
    IF l = <<>> THEN <<>>
    ELSE IF StackRaises(l) THEN Raise("SchemaMismatchError")
    ELSE [k \in DOMAIN l[1] |-> [i \in 1 .. Len(l) |-> l[i][k]]]

PathLen(p) == Len(p.rewards)

\* Number of transitions in a sequence of paths, and in a batch.
RECURSIVE SeqSamples(_)
SeqSamples(ps) ==
    IF ps = <<>> THEN 0 ELSE PathLen(Head(ps)) + SeqSamples(Tail(ps))

RECURSIVE SamplesFrom(_, _)
SamplesFrom(b, i) ==
    IF i \notin DOMAIN b THEN 0
    ELSE SeqSamples(b[i]) + SamplesFrom(b, i + 1)

TotalSamples(b) == SamplesFrom(b, 0)

\* Number of paths in a batch.
RECURSIVE PathsFrom(_, _)
PathsFrom(b, i) ==
    IF i \notin DOMAIN b THEN 0 ELSE Len(b[i]) + PathsFrom(b, i + 1)

NumPaths(b) == PathsFrom(b, 0)

(***************************************************************************)
(* truncate_paths (garage.sampler.utils), applied to the batch: slots in   *)
(* index order, paths in the order they were appended; whole paths are     *)
(* kept while they fit, the first path that does not fit is cut at its     *)
(* tail, and every later path is removed.                                  *)
(***************************************************************************)
TruncateDict(d, k) == [key \in DOMAIN d |-> SubSeq(d[key], 1, k)]

TruncatePath(p, k) ==
    [observations |-> SubSeq(p.observations, 1, k),
     actions |-> SubSeq(p.actions, 1, k),
     rewards |-> SubSeq(p.rewards, 1, k),
     dones |-> SubSeq(p.dones, 1, k),
     env_infos |-> TruncateDict(p.env_infos, k),
     agent_infos |-> TruncateDict(p.agent_infos, k)]

RECURSIVE TruncateSeq(_, _)
TruncateSeq(ps, budget) ==
    IF ps = <<>> \/ budget <= 0 THEN <<>>
    ELSE IF PathLen(Head(ps)) <= budget
         THEN <<Head(ps)>> \o TruncateSeq(Tail(ps), budget - PathLen(Head(ps)))
         ELSE <<TruncatePath(Head(ps), budget)>>

truncate_paths(b, max_samples) ==
    [i \in DOMAIN b |->
        TruncateSeq(b[i], max_samples - (TotalSamples(b) - SamplesFrom(b, i)))]

(***************************************************************************)
(* obtain_samples                                                          *)
(***************************************************************************)
\* whole_paths=True in the signature.
WholePathsDefault == TRUE
WholePaths(w) == IF w = None THEN WholePathsDefault ELSE Get(w)

\* while n_samples < batch_size
LoopCondition == n_samples < batch_size

EmptyRunningPath ==
    [observations |-> <<>>, actions |-> <<>>, rewards |-> <<>>,
     dones |-> <<>>, env_infos |-> <<>>, agent_infos |-> <<>>]

\* Faulty variant: the path is built from the running path as it was before the
\* transition that reported done was appended.
AssemblePathBeforeAppend(rp, stacked_actions) ==
    LET n == Len(rp.rewards) - 1
    IN [observations |-> SubSeq(rp.observations, 1, n),
        actions |-> SubSeq(stacked_actions, 1, n),
        rewards |-> SubSeq(rp.rewards, 1, n),
        dones |-> SubSeq(rp.dones, 1, n),
        env_infos |-> StackTensorDictList(SubSeq(rp.env_infos, 1, n)),
        agent_infos |-> StackTensorDictList(SubSeq(rp.agent_infos, 1, n))]

\* The path built from a running path whose done fired.
AssemblePath(rp, stacked_actions) ==
    [observations |-> rp.observations,
     actions |-> stacked_actions,
     rewards |-> rp.rewards,
     dones |-> rp.dones,
     env_infos |-> StackTensorDictList(rp.env_infos),
     agent_infos |-> StackTensorDictList(rp.agent_infos)]

\* Faulty variant: a path is built from dicts of different keys as well.
PathNeverRaises(rp) == FALSE

\* Building the path raises: lines 175-178 stack the env infos and the
\* agent infos of the running path.
PathRaises(rp) ==
    \/ IsRaise(StackTensorDictList(rp.env_infos))
    \/ IsRaise(StackTensorDictList(rp.agent_infos))

\* Faulty variant: one is added per stored path.
PathSamplesCountsPaths(rp) == 1

\* The count added to n_samples when a path is stored.
PathSamples(rp) == Len(rp.rewards)

\* Faulty variant: n_samples counts every transition as it is appended.
NSamplesCountsEveryStep(n, rp, done) == n + 1

\* n_samples after the for body has handled a transition: the length of
\* the running path is added only under "if done".
NSamplesAfter(n, rp, done) == IF done THEN n + PathSamples(rp) ELSE n

\* Faulty variant: the running path of a stored path is kept.
RunningPathKept(rp) == Some(rp)

\* running_paths[idx] = None, once the path is stored.
RunningPathAfterDone(rp) == None

\* Faulty variant: the body reads the action through the name actions, which
\* line 169 has bound to the stacked actions of the last stored path (an
\* index past their end is kept as the value read).
ZipActionByName(zipped, st, idx) ==
    IF 0 \in DOMAIN st.actions THEN st.actions[idx]
    ELSE IF idx + 1 \in DOMAIN st.actions THEN st.actions[idx + 1]
    ELSE <<"IndexError", idx, Len(st.actions)>>

\* The action zip() yields for slot idx: zip iterates over the object the
\* name actions was bound to when the for statement began (zipped), not
\* over what the body later binds the name to (st.actions).
ZipAction(zipped, st, idx) == zipped[idx]

\* Faulty variant: the agent info of the step is not appended.
AppendTransitionWithoutAgentInfo(old, tr) ==
    [old EXCEPT !.observations = Append(@, tr.observation),
                !.actions = Append(@, tr.action),
                !.rewards = Append(@, tr.reward),
                !.dones = Append(@, tr.done),
                !.env_infos = Append(@, tr.env_info)]

\* The six appends of the for body.
AppendTransition(old, tr) ==
    [observations |-> Append(old.observations, tr.observation),
     actions |-> Append(old.actions, tr.action),
     rewards |-> Append(old.rewards, tr.reward),
     dones |-> Append(old.dones, tr.done),
     env_infos |-> Append(old.env_infos, tr.env_info),
     agent_infos |-> Append(old.agent_infos, tr.agent_info)]

\* The rest of the for body once the transition is appended and rp is the
\* running path of slot idx: under "if done" the path is stored.
AfterAppend(idx, st, step, rp) ==
    IF step.dones[idx]
    THEN IF PathRaises(rp)
         THEN [st EXCEPT !.running_paths[idx] = Some(rp),
                         !.actions = rp.actions,
                         !.raised = Some("SchemaMismatchError")]
         ELSE [running_paths |-> [st.running_paths EXCEPT
                                    ![idx] = RunningPathAfterDone(rp)],
               paths |-> [st.paths EXCEPT
                            ![idx] = Append(@, AssemblePath(rp, rp.actions))],
               n_samples |-> NSamplesAfter(st.n_samples, rp, TRUE),
               actions |-> rp.actions,
               raised |-> None]
    ELSE [st EXCEPT !.running_paths[idx] = Some(rp),
                    !.n_samples = NSamplesAfter(st.n_samples, rp, FALSE)]

\* One pass of the for body, for slot idx; st holds the names the body
\* assigns, step what the policy and the environment group returned.
\* (The running path is bound as a value, rp, once the appends are done.)
ProcessSlot(idx, st, step) ==
    LET old == IF st.running_paths[idx] = None THEN EmptyRunningPath
               ELSE Get(st.running_paths[idx])
    IN CHOOSE r \in
          {AfterAppend(idx, st, step, rp) :
              rp \in {AppendTransition(old,
                         [observation |-> step.obses[idx],
                          action |-> ZipAction(step.actions, st, idx),
                          reward |-> step.rewards[idx],
                          done |-> step.dones[idx],
                          env_info |-> step.env_infos[idx],
                          agent_info |-> step.agent_infos[idx]])}} : TRUE

\* Faulty variant: the for loop ends as soon as n_samples reaches batch_size.
RECURSIVE ProcessSlotsUntilBudget(_, _, _)
ProcessSlotsUntilBudget(idx, st, step) ==
    IF \/ idx \notin DOMAIN step.obses
       \/ st.raised # None
       \/ st.n_samples >= batch_size
    THEN st
    ELSE CHOOSE r \in {ProcessSlotsUntilBudget(idx + 1, s, step) :
                          s \in {ProcessSlot(idx, st, step)}} : TRUE

\* The for loop over the zipped batch, from slot idx on; an exception
\* raised by the body ends it.  (The body's result is bound as a value, s,
\* before the loop goes on with it.)
RECURSIVE ProcessSlots(_, _, _)
ProcessSlots(idx, st, step) ==
    IF idx \notin DOMAIN step.obses \/ st.raised # None
    THEN st
    ELSE CHOOSE r \in {ProcessSlots(idx + 1, s, step) :
                          s \in {ProcessSlot(idx, st, step)}} : TRUE

\* The collaborator calls made before the loop: the group is reset, then
\* the policy is reset with the all-true dones mask.
BeginCalls(mask) ==
    <<[op |-> "vec_env.reset", mask |-> None],
      [op |-> "policy.reset", mask |-> Some(mask)]>>

\* Faulty variant: the policy is reset for the slots that are done after each step.
LoopCallsResetPolicy(d) ==
    <<[op |-> "policy.get_actions", mask |-> None],
      [op |-> "vec_env.step", mask |-> None]>>
    \o (IF \E j \in DOMAIN d : d[j]
        THEN <<[op |-> "policy.reset", mask |-> Some(d)]>>
        ELSE <<>>)

\* The collaborator calls of one loop iteration whose step returned the
\* dones d: the policy is only reset at the beginning of the call.
LoopCalls(d) ==
    <<[op |-> "policy.get_actions", mask |-> None],
      [op |-> "vec_env.step", mask |-> None]>>

\* Faulty variant: the dict of the call before is emptied and filled again.
PathsObjectReused == FALSE

\* paths = OrderedDict(): the name is bound to a dict made by this call.
NewPathsObject == TRUE

\* The batch h the caller kept hold of, once this call's dict holds p:
\* what is written to another dict does not show in it.
HeldNow(h, p) == IF NewPathsObject \/ h = None THEN h ELSE Some(p)

\* Lines 108-118 when start_worker has not run: self._vec_env is None.
ObtainSamplesFail ==
    /\ pc \in {"idle", "done"}
    /\ vec_env = None
    /\ \E b \in batch_sizes : args' = Some(b)
    /\ pc' = "error"
    /\ err' = Some("AttributeError")
    /\ UNCHANGED <<config, worker, whole_paths_arg, batch_size, paths,
                   n_samples, obses, dones, running_paths, ts, t, calls,
                   result, held>>

\* Lines 108-129: everything before the while loop.
ObtainSamplesBegin ==
    /\ pc \in {"idle", "done"}
    /\ vec_env # None
    /\ groups[Get(vec_env)].closes = 0
    /\ \E b \in batch_sizes :
          /\ args' = Some(b)
          /\ batch_size' = BatchSize(b)
    /\ whole_paths_arg' = None
    /\ paths' = [i \in Slots(n_envs) |-> <<>>]
    /\ n_samples' = 0
    /\ obses' = VecEnvReset
    /\ ts' = [j \in Slots(NumEnvs) |-> 0]
    /\ dones' = [j \in Slots(NumEnvs) |-> TRUE]
    /\ running_paths' = [j \in Slots(NumEnvs) |-> None]
    /\ t' = 0
    /\ calls' = BeginCalls([j \in Slots(NumEnvs) |-> TRUE])
    /\ result' = None
    /\ held' = HeldNow(IF keeps /\ pc = "done" THEN result ELSE None, paths')
    /\ pc' = "loop"
    /\ UNCHANGED <<config, worker, err>>

\* Lines 131-183: one iteration of the while loop.
LoopIteration ==
    /\ pc = "loop"
    /\ LoopCondition
    /\ \E d \in StepDones :
          LET actions == GetActions(obses)
              step == [obses |-> obses,
                       actions |-> actions,
                       rewards |-> [j \in Slots(NumEnvs) |-> Reward(j, t)],
                       dones |-> d,
                       env_infos |-> [j \in Slots(NumEnvs) |-> EnvInfo(j, t)],
                       agent_infos |->
                           [j \in Slots(NumEnvs) |-> AgentInfo(j, t)]]
              st == CHOOSE r \in {ProcessSlots(0,
                                     [running_paths |-> running_paths,
                                      paths |-> paths,
                                      n_samples |-> n_samples,
                                      actions |-> actions,
                                      raised |-> None],
                                     step)} : TRUE
          IN /\ dones' = d
             /\ ts' = [j \in Slots(NumEnvs) |-> IF d[j] THEN 0 ELSE ts[j] + 1]
             /\ running_paths' = st.running_paths
             /\ paths' = st.paths
             /\ n_samples' = st.n_samples
             /\ err' = st.raised
             /\ IF st.raised # None
                THEN pc' = "error" /\ UNCHANGED <<obses, t>>
                ELSE /\ pc' = pc
                     /\ obses' = [j \in Slots(NumEnvs) |-> Obs(j, t + 1)]
                     /\ t' = t + 1
    /\ calls' = calls \o LoopCalls(dones')
    /\ held' = HeldNow(held, paths')
    /\ UNCHANGED <<config, worker, args, whole_paths_arg, batch_size,
                   result>>

\* Faulty variant: the batch is returned whole whatever whole_paths is.
ReturnValueNeverTruncated(w) == paths

\* Faulty variant: the sense of whole_paths is inverted.
ReturnValueFlagInverted(w) ==
    IF WholePaths(w) THEN truncate_paths(paths, batch_size) ELSE paths

\* Faulty variant: the running paths left when the loop ends are stored as paths.
ReturnValueFlushesRunning(w) ==
    LET flushed == [i \in DOMAIN paths |->
                       IF running_paths[i] = None THEN paths[i]
                       ELSE Append(paths[i],
                               AssemblePath(Get(running_paths[i]),
                                            Get(running_paths[i]).actions))]
    IN IF WholePaths(w) THEN flushed
       ELSE truncate_paths(flushed, batch_size)

\* Faulty variant: the batch is cut one transition above batch_size.
ReturnValueOneTooMany(w) ==
    IF WholePaths(w) THEN paths ELSE truncate_paths(paths, batch_size + 1)

\* The value of the return statement, for the whole_paths passed.
ReturnValue(w) ==
    IF WholePaths(w) THEN paths ELSE truncate_paths(paths, batch_size)

\* Lines 185-191: the loop has ended.  whole_paths is first read here, so
\* the caller's choice of it is drawn here.
ObtainSamplesReturn ==
    /\ pc = "loop"
    /\ ~LoopCondition
    /\ \E w \in WholePathsArgs :
          /\ whole_paths_arg' = Some(w)
          /\ result' = Some(ReturnValue(w))
    /\ pc' = "done"
    /\ UNCHANGED <<config, worker, err, args, batch_size, paths,
                   n_samples, obses, dones, running_paths, ts, t, calls,
                   held>>

Next ==
    \/ StartWorker
    \/ StartWorkerFail
    \/ ShutdownWorker
    \/ ShutdownWorkerFail
    \/ ObtainSamplesBegin
    \/ ObtainSamplesFail
    \/ LoopIteration
    \/ ObtainSamplesReturn

Spec == Init /\ [][Next]_vars

ScenarioSpec == ScenarioInit /\ [][Next]_vars

TwoCallsSpec == TwoCallsInit /\ [][Next]_vars

LifecycleSpec == LifecycleInit /\ [][Next]_vars

\* The while loop keeps running and the return statement is reached: the
\* call is one blocking thread of control.
LiveSpec ==
    /\ LiveInit
    /\ [][Next]_vars
    /\ WF_vars(LoopIteration)
    /\ WF_vars(ObtainSamplesReturn)

(***************************************************************************)
(* Properties                                                              *)
(***************************************************************************)
\* obtain_samples has returned; result holds the batch it returned.
Returned == pc = "done"

\* The call left whole_paths out, passed it as true, passed it as false.
WholePathsLeftOut == Returned /\ Get(whole_paths_arg) = None
ReturnedWhole == Returned /\ WholePaths(Get(whole_paths_arg))
ReturnedTruncated == Returned /\ ~WholePaths(Get(whole_paths_arg))

\* C1: a call that leaves whole_paths at its default returns a batch of at
\* most batch_size transitions; with four slots whose episodes all end at
\* step 10 and batch_size 20 it returns exactly two paths of length 10.
C1_DefaultCallTruncates ==
    WholePathsLeftOut =>
        /\ TotalSamples(Get(result)) <= batch_size
        /\ (n_envs = 4 /\ max_path_length = 10 /\ env_dones = {FALSE}
                /\ batch_size = 20)
            => /\ NumPaths(Get(result)) = 2
               /\ \A i \in DOMAIN Get(result) :
                     \A k \in 1 .. Len(Get(result)[i]) :
                        PathLen(Get(result)[i][k]) = 10

\* C2: the paths of a batch returned whole hold n_samples transitions in
\* total, and at least batch_size.
C2_WholeBatchTotal ==
    ReturnedWhole =>
        /\ TotalSamples(Get(result)) = n_samples
        /\ TotalSamples(Get(result)) >= batch_size

C2_Witness ==
    /\ ReturnedWhole
    /\ NumPaths(Get(result)) >= 3
    /\ TotalSamples(Get(result)) > batch_size
    /\ batch_size > 0

\* C3: every path stored in paths has observations, actions, rewards and
\* dones of one length, at least 1, and its last done is true.
C3_PathsWellFormed ==
    \A i \in DOMAIN paths :
        \A k \in 1 .. Len(paths[i]) :
            LET p == paths[i][k]
            IN /\ Len(p.observations) = Len(p.actions)
               /\ Len(p.actions) = Len(p.rewards)
               /\ Len(p.rewards) = Len(p.dones)
               /\ Len(p.dones) >= 1
               /\ p.dones[Len(p.dones)]

C3_Witness ==
    \E i \in DOMAIN paths :
        /\ Len(paths[i]) >= 2
        /\ PathLen(paths[i][1]) >= 2
        /\ ~paths[i][1].dones[1]

\* C4: a call with whole_paths false returns a batch keyed by the slot
\* indices whose paths hold at most batch_size transitions in total.
C4_TruncatedWithinBatchSize ==
    ReturnedTruncated =>
        /\ DOMAIN Get(result) = Slots(n_envs)
        /\ TotalSamples(Get(result)) <= batch_size

C4_Witness ==
    /\ ReturnedTruncated
    /\ TotalSamples(paths) > batch_size
    /\ TotalSamples(Get(result)) > 0

\* The group start_worker built, and the environment behind its slot i.
Started == vec_env # None
SlotEnv(i) == envs[groups[Get(vec_env)].envs[i]]

\* C5: after start_worker with a global seed, the environment of every
\* slot i is seeded with the global seed plus i.
C5_SlotSeeds ==
    (Started /\ seed0 # None) =>
        \A i \in Slots(n_envs) : SlotEnv(i).seed = Some(Get(seed0) + i)

\* start_worker is called, and the configuration its assertions reject.
StartCalled == StartWorker \/ StartWorkerFail
BadStartConfig ==
    n_envs < meta_batch_size \/ n_envs % meta_batch_size # 0

\* C6: when n_envs is less than meta_batch_size or no multiple of it,
\* start_worker raises before it samples a task or copies or seeds an
\* environment, and self._vec_env is left as it was.
C6_BadConfigRaisesFirst ==
    [][(BadStartConfig /\ StartCalled) =>
          /\ pc' = "error"
          /\ err' = Some("AssertionError")
          /\ UNCHANGED <<vec_env, groups, envs, sampled>>]_vars

C6_Witness ==
    /\ pc = "error"
    /\ err = Some("AssertionError")
    /\ n_envs > meta_batch_size
    /\ vec_env = None
    /\ envs = <<>>
    /\ sampled = 0

\* C7: in every obtain_samples call policy.reset is called exactly once,
\* with a mask that is true for every slot, right after the group's reset
\* and before any get_actions; no loop iteration calls it.
C7_PolicyResetOnce ==
    pc \in {"loop", "done"} =>
        /\ Len(calls) >= 2
        /\ calls[1].op = "vec_env.reset"
        /\ calls[2].op = "policy.reset"
        /\ calls[2].mask = Some([j \in Slots(n_envs) |-> TRUE])
        /\ \A k \in 3 .. Len(calls) : calls[k].op # "policy.reset"

C7_Witness ==
    /\ pc = "done"
    /\ Len(calls) >= 6
    /\ \E i \in DOMAIN paths : Len(paths[i]) >= 2

\* The (slot, iteration) pairs of the transitions held in a sequence of
\* tagged values, in a running path or path, and in a batch.
Origins(seq) == {<<seq[m][2], seq[m][3]>> : m \in 1 .. Len(seq)}
PathOrigins(p) ==
    Origins(p.observations) \cup Origins(p.actions) \cup Origins(p.rewards)
BatchOrigins(b) ==
    UNION {UNION {PathOrigins(b[i][k]) : k \in 1 .. Len(b[i])} :
              i \in DOMAIN b}

\* The transitions held in running paths.
RunningOrigins ==
    UNION {PathOrigins(Get(running_paths[j])) :
              j \in {i \in DOMAIN running_paths : running_paths[i] # None}}

\* C8: when the loop has ended, no transition of a running path is in a
\* path of the returned batch, and none is counted in n_samples.
C8_RunningPathsDropped ==
    Returned =>
        /\ RunningOrigins \cap BatchOrigins(Get(result)) = {}
        /\ n_samples = n_envs * t - Cardinality(RunningOrigins)

C8_Witness ==
    /\ Returned
    /\ \E j \in DOMAIN running_paths :
          /\ running_paths[j] # None
          /\ Len(Get(running_paths[j]).rewards) >= 1
    /\ TotalSamples(Get(result)) > 0

\* C9: with every slot done at most max_path_length steps after its
\* episode began, the loop of every call ends and the call returns;
\* n_samples grows only in an iteration in which some slot is done, and an
\* iteration in which no slot is done leaves the loop running.
C9_LoopEnds ==
    /\ (pc = "loop") ~> (pc = "done")
    /\ [][n_samples' > n_samples => \E j \in DOMAIN dones' : dones'[j]]_vars
    /\ [][(pc = "loop" /\ t' = t + 1 /\ \A j \in DOMAIN dones' : ~dones'[j])
            => (pc' = "loop" /\ n_samples' < batch_size')]_vars

C9_Witness ==
    /\ pc = "done"
    /\ max_path_length >= 2
    /\ batch_size > n_envs * max_path_length - n_envs
    /\ \A i \in DOMAIN paths :
          /\ Len(paths[i]) >= 1
          /\ PathLen(paths[i][1]) = max_path_length

\* q is p cut after its first PathLen(q) transitions.
IsHeadOf(q, p) ==
    /\ PathLen(q) >= 1
    /\ PathLen(q) <= PathLen(p)
    /\ q.observations = SubSeq(p.observations, 1, PathLen(q))
    /\ q.actions = SubSeq(p.actions, 1, PathLen(q))
    /\ q.rewards = SubSeq(p.rewards, 1, PathLen(q))
    /\ q.dones = SubSeq(p.dones, 1, PathLen(q))

\* C10: a call with whole_paths false and a positive batch_size returns
\* exactly batch_size transitions whenever that many were collected, in
\* paths that are collected paths cut at the tail.
C10_TruncatedToBatchSize ==
    (ReturnedTruncated /\ batch_size > 0) =>
        /\ TotalSamples(paths) >= batch_size
              => TotalSamples(Get(result)) = batch_size
        /\ \A i \in DOMAIN Get(result) :
              /\ Len(Get(result)[i]) <= Len(paths[i])
              /\ \A k \in 1 .. Len(Get(result)[i]) :
                    IsHeadOf(Get(result)[i][k], paths[i][k])

C10_Witness ==
    /\ ReturnedTruncated
    /\ batch_size > 0
    /\ TotalSamples(paths) > batch_size
    /\ \E i \in DOMAIN Get(result) :
          \E k \in 1 .. Len(Get(result)[i]) :
             /\ PathLen(Get(result)[i][k]) < PathLen(paths[i][k])
             /\ k = Len(Get(result)[i])

\* The call left batch_size out.
BatchSizeLeftOut == pc \in {"loop", "done"} /\ Get(args) = None

Targets == 0 .. (MaxBatchSize + MaxEnvs * MaxPathLength)

\* C12: truncating a truncated batch to the same size changes nothing:
\* the batch a call with whole_paths false returned is left as it is by
\* truncate_paths with the call's batch_size, and so is, for every size,
\* the truncation of the batch the loop of that call collected.
C12_TruncationIdempotent ==
    ReturnedTruncated =>
        /\ truncate_paths(Get(result), batch_size) = Get(result)
        /\ \A m \in Targets :
              \A once \in {truncate_paths(paths, m)} :
                 truncate_paths(once, m) = once

C12_Witness ==
    /\ ReturnedTruncated
    /\ TotalSamples(paths) > batch_size
    /\ \E i, j \in DOMAIN paths :
          /\ i < j
          /\ Get(result)[i] = paths[i]
          /\ Len(paths[i]) >= 1
          /\ Len(Get(result)[j]) = 1
          /\ PathLen(Get(result)[j][1]) < PathLen(paths[j][1])


\* The key sets of the env-info dicts of slot j's episode once the step
\* about to be taken is appended to its running path.
EpisodeKeySets(j) ==
    {EnvInfoKeys(j)} \cup
        (IF running_paths[j] = None THEN {}
         ELSE {DOMAIN Get(running_paths[j]).env_infos[m] :
                  m \in 1 .. Len(Get(running_paths[j]).env_infos)})

\* A loop iteration is run.
IterationRun == pc = "loop" /\ calls' # calls

LastTransition(j) ==
    IF running_paths[j] # None
    THEN LET rp == Get(running_paths[j])
             n == Len(rp.rewards)
         IN [observation |-> rp.observations[n],
             action |-> rp.actions[n],
             reward |-> rp.rewards[n],
             done |-> rp.dones[n],
             env_info |-> rp.env_infos[n]]
    ELSE LET p == paths[j][Len(paths[j])]
             n == PathLen(p)
         IN [observation |-> p.observations[n],
             action |-> p.actions[n],
             reward |-> p.rewards[n],
             done |-> p.dones[n],
             env_info |-> [k \in DOMAIN p.env_infos |-> p.env_infos[k][n]]]

\* C14: the transition a loop iteration appends for slot j holds the
\* observation of slot j the policy was given, the action the policy
\* returned for slot j and the reward, done and env info the step returned
\* for slot j, also when a slot before j was done in that iteration and
\* the name actions was bound to that slot's path actions.
C14_TransitionOfSlot ==
    [][(IterationRun /\ pc' # "error") =>
          \A j \in DOMAIN obses :
             LastTransition(j)' =
                [observation |-> obses[j],
                 action |-> <<"a", j, t>>,
                 reward |-> <<"r", j, t>>,
                 done |-> dones'[j],
                 env_info |-> EnvInfo(j, t)]]_vars

C14_Witness ==
    /\ pc = "loop"
    /\ t >= 2
    /\ \E i, j \in DOMAIN dones :
          /\ i < j
          /\ dones[i]
          /\ PathLen(paths[i][Len(paths[i])]) >= 2
          /\ LastTransition(j).action = <<"a", j, t - 1>>
          /\ LastTransition(j).observation = <<"o", j, t - 1>>


\* The entries of one field of the paths ps, in the order of the paths.
RECURSIVE FieldStream(_, _)
FieldStream(ps, field) ==
    IF ps = <<>> THEN <<>>
    ELSE Head(ps)[field] \o FieldStream(Tail(ps), field)

\* The number of steps slot j has taken since its last done.
RunningLen(j) ==
    IF running_paths[j] = None THEN 0
    ELSE Len(Get(running_paths[j]).rewards)

\* C15: the paths stored for a slot, taken in order, hold the slot's own
\* transitions from the reset of the call up to its last done, each one
\* once and in the order of the steps; every path ends with the only true
\* done it holds.
C15_PathsAreTheSlotStream ==
    pc \in {"loop", "done"} =>
        \A j \in DOMAIN paths :
           LET n == t - RunningLen(j)
           IN /\ FieldStream(paths[j], "observations")
                    = [m \in 1 .. n |-> <<"o", j, m - 1>>]
              /\ FieldStream(paths[j], "actions")
                    = [m \in 1 .. n |-> <<"a", j, m - 1>>]
              /\ FieldStream(paths[j], "rewards")
                    = [m \in 1 .. n |-> <<"r", j, m - 1>>]
              /\ \A k \in 1 .. Len(paths[j]) :
                    LET p == paths[j][k]
                    IN /\ \A m \in 1 .. PathLen(p) :
                             p.dones[m] <=> (m = PathLen(p))
                       /\ \A key \in DOMAIN p.env_infos :
                             /\ Len(p.env_infos[key]) = PathLen(p)
                             /\ \A m \in 1 .. PathLen(p) :
                                   p.env_infos[key][m]
                                      = <<"e", j, p.rewards[m][3]>>

C15_Witness ==
    /\ pc = "done"
    /\ \E i \in DOMAIN paths : Len(paths[i]) >= 2
    /\ \E i \in DOMAIN paths :
          Len(paths[i]) >= 1 /\ PathLen(paths[i][1]) >= 2
    /\ \E i \in DOMAIN paths : Len(paths[i]) >= 1 /\ RunningLen(i) >= 1


\* C16: after start_worker any two slots of the group are backed by
\* different environment instances, so that the seed call made for one
\* slot is the only one that reaches its environment.
C16_SlotsHaveOwnEnvs ==
    Started =>
        /\ \A i, j \in Slots(n_envs) :
              i # j => groups[Get(vec_env)].envs[i]
                          # groups[Get(vec_env)].envs[j]
        /\ seed0 # None => \A i \in Slots(n_envs) : SlotEnv(i).seeded = 1


\* C17: after a start_worker that succeeded the group has n_envs slots,
\* meta_batch_size tasks were sampled for it, and slot i is bound to the
\* task of index i div (n_envs div meta_batch_size) among them: each task
\* has a block of n_envs div meta_batch_size neighbouring slots.
C17_SlotsAndTasks ==
    Started =>
        /\ DOMAIN groups[Get(vec_env)].envs = Slots(n_envs)
        /\ sampled = meta_batch_size * Len(groups)
        /\ \A i \in Slots(n_envs) :
              SlotEnv(i).task
                 = (sampled - meta_batch_size) + 1
                      + (i \div (n_envs \div meta_batch_size))

C17_Witness ==
    /\ Started
    /\ meta_batch_size >= 2
    /\ n_envs \div meta_batch_size >= 2
    /\ SlotEnv(0).task = SlotEnv(1).task
    /\ SlotEnv(n_envs - 1).task # SlotEnv(0).task


\* The loop iterations run since slot j was last done, or since the reset
\* of the call when it has not been done.
StepsSinceDone(j) ==
    IF paths[j] = <<>> THEN t
    ELSE LET p == paths[j][Len(paths[j])]
         IN t - (p.rewards[PathLen(p)][3] + 1)

\* C18: the six lists of every running path have one length, and between
\* loop iterations that length is the number of steps the slot has taken
\* since it was last done; a slot without a running path has taken none.
C18_RunningPathLengths ==
    /\ \A j \in DOMAIN running_paths :
          running_paths[j] # None =>
             LET rp == Get(running_paths[j])
             IN /\ Len(rp.observations) = Len(rp.actions)
                /\ Len(rp.actions) = Len(rp.rewards)
                /\ Len(rp.rewards) = Len(rp.dones)
                /\ Len(rp.dones) = Len(rp.env_infos)
                /\ Len(rp.env_infos) = Len(rp.agent_infos)
    /\ pc \in {"loop", "done"} =>
          \A j \in DOMAIN running_paths :
             /\ RunningLen(j) = StepsSinceDone(j)
             /\ RunningLen(j) = ts[j]

C18_Witness ==
    /\ pc = "loop"
    /\ \E i, j \in DOMAIN running_paths :
          /\ running_paths[i] = None
          /\ paths[i] # <<>>
          /\ RunningLen(j) = 1
          /\ paths[j] # <<>>
          /\ t >= 2


\* A call begins right after a call on the same group has returned.
NextCallBegins == pc = "done" /\ pc' = "loop"

\* C19: a call that follows a returned call begins with n_samples 0, no
\* path in paths, no running path, and the group reset; the batch it
\* returns holds transitions of its own iterations only; and the batch
\* the caller got from the call before stays as it was returned.
C19_CallsAreIndependent ==
    /\ [][NextCallBegins =>
             /\ n_samples' = 0
             /\ paths' = [i \in Slots(n_envs) |-> <<>>]
             /\ running_paths' = [i \in Slots(n_envs) |-> None]
             /\ calls'[1].op = "vec_env.reset"
             /\ ts' = [i \in Slots(n_envs) |-> 0]
             /\ obses' = [i \in Slots(n_envs) |-> <<"o", i, 0>>]
             /\ held' = result]_vars
    /\ [][(pc = "loop" /\ held # None) => held' = held]_vars
    /\ [](Returned /\ held # None =>
             \A j \in DOMAIN Get(result) :
                FieldStream(Get(result)[j], "observations")
                   = [m \in 1 .. SeqSamples(Get(result)[j]) |->
                         <<"o", j, m - 1>>])

C19_Witness ==
    /\ Returned
    /\ held # None
    /\ TotalSamples(Get(held)) >= 2
    /\ Get(result) # Get(held)
    /\ TotalSamples(Get(result)) >= 1
    /\ \E j \in DOMAIN Get(held) : Get(held)[j] # <<>> /\ Get(result)[j] = <<>>


\* C20: n_samples is compared with batch_size only before an iteration:
\* an iteration that has begun stores the path of every slot that is done
\* in it, also after n_samples has reached batch_size; so, with episodes
\* of at most max_path_length steps, n_samples of a call with a positive
\* batch_size that returns the batch whole is at most
\* batch_size - 1 + n_envs * max_path_length.
C20_BudgetTestedBetweenIterations ==
    /\ [][(IterationRun /\ pc' # "error") =>
             /\ n_samples < batch_size
             /\ \A j \in DOMAIN dones' :
                   dones'[j] => Len(paths'[j]) = Len(paths[j]) + 1]_vars
    /\ []((ReturnedWhole /\ batch_size > 0) =>
             /\ TotalSamples(Get(result)) = n_samples
             /\ n_samples <= batch_size - 1 + n_envs * max_path_length)

C20_Witness ==
    /\ ReturnedWhole
    /\ batch_size > 0
    /\ n_envs >= 2
    /\ max_path_length >= 2
    /\ n_samples = batch_size - 1 + n_envs * max_path_length
    /\ \A j \in DOMAIN dones : dones[j]


\* As many shutdown_worker calls as start_worker calls that built a group
\* have been made, each after a start_worker not yet matched.
StartsAndShutdownsEqual == Len(groups) >= 1 /\ ClosesFrom(1) = Len(groups)

\* C21: once as many shutdown_worker calls as start_worker calls have been
\* made, each shutdown_worker after a start_worker not yet matched, every
\* group a start_worker built has been closed exactly once.
C21_EveryGroupClosedOnce ==
    StartsAndShutdownsEqual =>
        \A g \in DOMAIN groups : groups[g].closes = 1

\* obtain_samples neither closes nor replaces the group.
CollectKeepsGroup ==
    [][(pc = "loop" \/ pc' = "loop") => UNCHANGED <<vec_env, groups>>]_vars


====
